---- MODULE Spec2Model ----
(***************************************************************************)
(* Model of libs/steed/src/sys/theseus/os.rs: the working-directory        *)
(* retrieval loop (getcwd / chdir), the search-path list codec             *)
(* (split_paths / join_paths) and the environment table access layer       *)
(* (env / getenv / setenv / unsetenv) with its placeholder ENV_LOCK.       *)
(*                                                                         *)
(* Byte strings are sequences of byte values.  OsString / PathBuf values   *)
(* are records [inner |-> bytes]; a CString is the byte sequence with its  *)
(* trailing terminator.                                                    *)
(***************************************************************************)
EXTENDS Integers, Sequences, FiniteSets, TLC

(* ------------------------------------------------------------------ *)
(* Bytes and bounds                                                    *)
(* ------------------------------------------------------------------ *)

\* b':' , the search-path separator (os.rs line 106 and line 85)
Colon == 58

\* the terminator byte that CString::new rejects inside its argument
Nul == 0

\* libc::ERANGE, the "insufficient buffer" code getcwd retries on
ERANGE == 34

\* initial capacity of the getcwd buffer
InitCap == 512

\* longest path segment / longest list / longest unparsed input explored
MaxSegLen == 2
MaxSegs == 3
MaxUnparsed == 4

\* most bytes in one explored list of segments, all segments together
MaxListBytes == 4

\* most consecutive "insufficient buffer" answers the kernel gives one getcwd
MaxRetries == 5

\* the byte values explored: separator, terminator, and two ordinary bytes
Bytes == {Colon, Nul, 97, 98}

Range(s) == {s[i] : i \in 1..Len(s)}

RECURSIVE SeqsUpTo(_, _)
SeqsUpTo(S, n) ==
    IF n = 0 THEN {<<>>}
    ELSE LET shorter == SeqsUpTo(S, n - 1)
         IN  shorter \cup {Append(s, x) : s \in {t \in shorter : Len(t) = n - 1}, x \in S}

(* ------------------------------------------------------------------ *)
(* Byte-string wrappers                                                *)
(* ------------------------------------------------------------------ *)

\* OsString::from_vec / OsStr::from_bytes / PathBuf::from: wrap raw bytes
from_vec(b) == [inner |-> b]

\* OsStrExt::as_bytes on an OsStr / Path: the wrapped bytes
as_bytes(p) == p.inner

\* slice::contains
contains(b, x) == \E i \in 1..Len(b) : b[i] = x

\* CString::new: Err (a nul byte inside) or the bytes with a terminator added;
\* the `?` turns the NulError into an io::Error
CString_new(b) ==
    IF contains(b, Nul)
    THEN [tag |-> "Err", kind |-> "Encoding", code |-> 0]
    ELSE [tag |-> "Ok", val |-> Append(b, Nul)]

\* CString::as_bytes / as_ptr read as a C string: the bytes without the
\* trailing terminator
CString_as_bytes(c) == SubSeq(c, 1, Len(c) - 1)

\* super::cvt: a negative raw result is an OS error carrying the raw code
cvt(r) ==
    IF r < 0
    THEN [tag |-> "Err", kind |-> "Os", code |-> 0 - r]
    ELSE [tag |-> "Ok", val |-> r]

(* ------------------------------------------------------------------ *)
(* PathListCodec: split_paths                                          *)
(* ------------------------------------------------------------------ *)

is_colon(b) == b = Colon

bytes_to_path(b) == from_vec(b)

\* variant: the position of the last matching element instead of the first
position_last(v) ==
    IF \E i \in 1..Len(v) : is_colon(v[i])
    THEN CHOOSE i \in 1..Len(v) : is_colon(v[i]) /\ \A j \in (i + 1)..Len(v) : ~is_colon(v[j])
    ELSE 0

\* slice::Split::next: position of the first element matching the predicate
\* (0 when there is none)
position(v) ==
    IF \E i \in 1..Len(v) : is_colon(v[i])
    THEN CHOOSE i \in 1..Len(v) : is_colon(v[i]) /\ \A j \in 1..(i - 1) : ~is_colon(v[j])
    ELSE 0

\* variant: empty runs between separators are skipped
RECURSIVE SplitPaths_collect_skip_empty(_)
SplitPaths_collect_skip_empty(v) ==
    LET idx == position(v)
        first == IF idx = 0 THEN v ELSE SubSeq(v, 1, idx - 1)
        item == IF first = <<>> THEN <<>> ELSE <<bytes_to_path(first)>>
    IN  IF idx = 0
        THEN item
        ELSE item \o SplitPaths_collect_skip_empty(SubSeq(v, idx + 1, Len(v)))

\* variant: an empty run after the last separator is not yielded
RECURSIVE SplitPaths_collect_no_trailing(_)
SplitPaths_collect_no_trailing(v) ==
    LET idx == position(v)
    IN  IF idx = 0
        THEN <<bytes_to_path(v)>>
        ELSE IF idx = Len(v)
        THEN <<bytes_to_path(SubSeq(v, 1, idx - 1))>>
        ELSE <<bytes_to_path(SubSeq(v, 1, idx - 1))>>
                 \o SplitPaths_collect_no_trailing(SubSeq(v, idx + 1, Len(v)))

\* the items SplitPaths::next yields until it returns None: each call cuts
\* the remaining slice at the first separator; with no separator left the
\* whole remainder is the last item
RECURSIVE SplitPaths_collect(_)
SplitPaths_collect(v) ==
    LET idx == position(v)
    IN  IF idx = 0
        THEN <<bytes_to_path(v)>>
        ELSE <<bytes_to_path(SubSeq(v, 1, idx - 1))>>
                 \o SplitPaths_collect(SubSeq(v, idx + 1, Len(v)))

split_paths(unparsed_os) == SplitPaths_collect(as_bytes(unparsed_os))

(* ------------------------------------------------------------------ *)
(* PathListCodec: join_paths                                           *)
(* ------------------------------------------------------------------ *)

\* variant: the separator test sits inside the `if i > 0` block, so the
\* first segment is never tested
RECURSIVE join_loop_first_unchecked(_, _, _)
join_loop_first_unchecked(ps, i, joined) ==
    IF i > Len(ps)
    THEN [err |-> FALSE, joined |-> joined, consumed |-> Len(ps)]
    ELSE LET path == as_bytes(ps[i])
             j1   == IF i > 1 THEN Append(joined, Colon) ELSE joined
         IN  IF i > 1 /\ contains(path, Colon)
             THEN [err |-> TRUE, joined |-> j1, consumed |-> i]
             ELSE join_loop_first_unchecked(ps, i + 1, j1 \o path)

\* variant: the separator is pushed before every segment, the first included
RECURSIVE join_loop_leading_sep(_, _, _)
join_loop_leading_sep(ps, i, joined) ==
    IF i > Len(ps)
    THEN [err |-> FALSE, joined |-> joined, consumed |-> Len(ps)]
    ELSE LET path == as_bytes(ps[i])
             j1   == Append(joined, Colon)
         IN  IF contains(path, Colon)
             THEN [err |-> TRUE, joined |-> j1, consumed |-> i]
             ELSE join_loop_leading_sep(ps, i + 1, j1 \o path)

\* the for loop of join_paths from the i-th item on (1-based), with the
\* bytes joined so far; consumed counts the items pulled from the iterator
RECURSIVE join_loop(_, _, _)
join_loop(ps, i, joined) ==
    IF i > Len(ps)
    THEN [err |-> FALSE, joined |-> joined, consumed |-> Len(ps)]
    ELSE LET path == as_bytes(ps[i])
             j1   == IF i > 1 THEN Append(joined, Colon) ELSE joined
         IN  IF contains(path, Colon)
             THEN [err |-> TRUE, joined |-> j1, consumed |-> i]
             ELSE join_loop(ps, i + 1, j1 \o path)

\* Result<OsString, JoinPathsError>; JoinPathsError is a unit struct, so an
\* Err carries no bytes
join_paths(ps) ==
    LET st == join_loop(ps, 1, <<>>)
    IN  IF st.err
        THEN [tag |-> "Err", val |-> from_vec(<<>>), consumed |-> st.consumed]
        ELSE [tag |-> "Ok", val |-> from_vec(st.joined), consumed |-> st.consumed]

(* ------------------------------------------------------------------ *)
(* State                                                               *)
(* ------------------------------------------------------------------ *)

VARIABLES
    \* PathListCodec: the caller's inputs and the values returned so far
    paths,      \* the sequence of segments handed to join_paths
    unparsed,   \* the byte string handed to split_paths
    jres,       \* result of join_paths(paths)
    sres,       \* items collected from split_paths(unparsed)
    rt_split,   \* items collected from split_paths(joined paths)
    rt_join,    \* result of join_paths over rt_split
    sj_join,    \* result of join_paths over sres
    \* WorkingDirectory
    kcwd,       \* the kernel's current directory (bytes, no terminator)
    cw_pc,      \* getcwd: "idle", "loop" (inside the loop) or "done"
    cap,        \* buf.capacity()
    kbuf,       \* the bytes at buf.as_ptr() after the kernel wrote them
    hist,       \* raw results of the kernel getcwd calls of this getcwd()
    cw_res,     \* what getcwd() returned
    cd_arg,     \* argument of the last chdir
    cd_res,     \* what the last chdir returned
    cd_kcall,   \* whether the last chdir invoked the kernel
    cd_cwd0,    \* the kernel's current directory when the last chdir began
    caps,       \* the capacities handed to the kernel by this getcwd(), in order
    kfault,     \* the kernel's standing reason to fail getcwd (0: none)
    rt,         \* progress of a getcwd() -> chdir(that path) -> getcwd() sequence
    \* EnvironmentTable
    environ,    \* the live table of the raw layer: key bytes -> value bytes or Absent
    pc,         \* per thread: "idle", "lock", "raw", "unlock", "ret", "done"
    op,         \* per thread: the operation in progress or just returned
    ek,         \* per thread: the key argument
    ev,         \* per thread: the value argument
    eres,       \* per thread: the local result / the value returned
    acc,        \* per thread: env()'s vector under construction and its cursor
    snap,       \* per thread: the Env the thread owns (what is left to iterate)
    kcall,      \* per thread: whether the operation invoked the raw layer
    tch,        \* per thread: the table changed since the operation was called
    taken,      \* per thread: the pairs of the owned Env as env() collected them
    yielded,    \* per thread: the pairs Env::next has yielded from it so far
    dirty,      \* per thread: a raw setenv/unsetenv ran since this thread's env()
    lastMut,    \* the last raw setenv/unsetenv that succeeded
    held,       \* per thread: lock() calls not yet matched by an unlock()
    nlock,      \* per thread: lock() calls made by the current operation
    seen        \* per thread: the tables that existed between env()'s lock() and unlock()

pathVars == <<paths, unparsed, jres, sres, rt_split, rt_join, sj_join>>

cwdVars == <<kcwd, cw_pc, cap, kbuf, hist, cw_res, cd_arg, cd_res, cd_kcall, cd_cwd0,
             caps, kfault, rt>>

envVars == <<environ, pc, op, ek, ev, eres, acc, snap, kcall, tch, taken, yielded,
             dirty, lastMut, held, nlock, seen>>

vars == <<pathVars, cwdVars, envVars>>

\* "not called yet"
NoRes == [tag |-> "None"]

(* ------------------------------------------------------------------ *)
(* PathListCodec: callers                                              *)
(* ------------------------------------------------------------------ *)

Segments == {from_vec(b) : b \in SeqsUpTo(Bytes, MaxSegLen)}

RECURSIVE TotalBytes(_)
TotalBytes(ps) == IF ps = <<>> THEN 0 ELSE Len(as_bytes(Head(ps))) + TotalBytes(Tail(ps))

\* the lists of at most n segments holding at most MaxListBytes bytes
RECURSIVE ListsUpTo(_)
ListsUpTo(n) ==
    IF n = 0 THEN {<<>>}
    ELSE LET shorter == ListsUpTo(n - 1)
             fits == {ls \in {t \in shorter : Len(t) = n - 1} \X Segments :
                         TotalBytes(ls[1]) + Len(as_bytes(ls[2])) <= MaxListBytes}
         IN  shorter \cup {Append(ls[1], ls[2]) : ls \in fits}

SegmentLists == ListsUpTo(MaxSegs)

UnparsedInputs == {from_vec(b) : b \in SeqsUpTo(Bytes, MaxUnparsed)}

PathInit ==
    /\ \/ paths \in SegmentLists /\ unparsed = from_vec(<<>>)
       \/ paths = <<>> /\ unparsed \in UnparsedInputs
    /\ jres = NoRes
    /\ sres = NoRes
    /\ rt_split = NoRes
    /\ rt_join = NoRes
    /\ sj_join = NoRes

PathIdle ==
    /\ paths = <<>>
    /\ unparsed = from_vec(<<>>)
    /\ jres = NoRes
    /\ sres = NoRes
    /\ rt_split = NoRes
    /\ rt_join = NoRes
    /\ sj_join = NoRes

\* join_paths(paths.iter())
CallJoinPaths ==
    /\ jres = NoRes
    /\ jres' = join_paths(paths)
    /\ UNCHANGED <<paths, unparsed, sres, rt_split, rt_join, sj_join>>
    /\ UNCHANGED <<cwdVars, envVars>>

\* split_paths(&unparsed).collect()
CallSplitPaths ==
    /\ sres = NoRes
    /\ sres' = [tag |-> "Some", items |-> split_paths(unparsed)]
    /\ UNCHANGED <<paths, unparsed, jres, rt_split, rt_join, sj_join>>
    /\ UNCHANGED <<cwdVars, envVars>>

\* split_paths(&joined).collect() on the Ok value of join_paths
CallSplitOfJoined ==
    /\ jres.tag = "Ok"
    /\ rt_split = NoRes
    /\ rt_split' = [tag |-> "Some", items |-> split_paths(jres.val)]
    /\ UNCHANGED <<paths, unparsed, jres, sres, rt_join, sj_join>>
    /\ UNCHANGED <<cwdVars, envVars>>

\* join_paths over the segments split from the joined value
CallJoinOfSplitOfJoined ==
    /\ rt_split.tag = "Some"
    /\ rt_join = NoRes
    /\ rt_join' = join_paths(rt_split.items)
    /\ UNCHANGED <<paths, unparsed, jres, sres, rt_split, sj_join>>
    /\ UNCHANGED <<cwdVars, envVars>>

\* join_paths over the segments split from unparsed
CallJoinOfSplit ==
    /\ sres.tag = "Some"
    /\ sj_join = NoRes
    /\ sj_join' = join_paths(sres.items)
    /\ UNCHANGED <<paths, unparsed, jres, sres, rt_split, rt_join>>
    /\ UNCHANGED <<cwdVars, envVars>>

PathNext ==
    \/ CallJoinPaths
    \/ CallSplitPaths
    \/ CallSplitOfJoined
    \/ CallJoinOfSplitOfJoined
    \/ CallJoinOfSplit

(* ------------------------------------------------------------------ *)
(* PathListCodec: properties                                           *)
(* ------------------------------------------------------------------ *)

HasColon(seg) == Colon \in Range(seg.inner)

HasNul(seg) == Nul \in Range(seg.inner)

SomeColonSeg(ps) == \E i \in 1..Len(ps) : HasColon(ps[i])

FirstColonSeg(ps) ==
    CHOOSE i \in 1..Len(ps) : HasColon(ps[i]) /\ \A j \in 1..(i - 1) : ~HasColon(ps[j])

NumColons(b) == Cardinality({i \in 1..Len(b) : b[i] = Colon})

\* the segments' bytes in order with one separator between neighbours
RECURSIVE Intercalate(_)
Intercalate(ps) ==
    IF ps = <<>> THEN <<>>
    ELSE IF Len(ps) = 1 THEN ps[1].inner
    ELSE Intercalate(SubSeq(ps, 1, Len(ps) - 1)) \o <<Colon>> \o ps[Len(ps)].inner

\* C4: join_paths returns JoinPathsError whenever some segment contains ':',
\* wherever that segment and that byte are; it stops at the first such
\* segment (the later ones are not pulled from the iterator) and hands back
\* no joined bytes.
C4_JoinFailsOnAnyColon ==
    (jres # NoRes /\ SomeColonSeg(paths)) =>
        /\ jres.tag = "Err"
        /\ jres.val = from_vec(<<>>)
        /\ jres.consumed = FirstColonSeg(paths)

C4_Witness ==
    /\ jres.tag = "Err"
    /\ Len(paths) = 3
    /\ ~HasColon(paths[1])
    /\ HasColon(paths[2])
    /\ paths[2].inner[Len(paths[2].inner)] = Colon
    /\ Len(paths[2].inner) = 2

\* C5: over segments none of which contains ':', join_paths returns Ok with
\* the segments in order and exactly one ':' between neighbours, none leading
\* or trailing; the empty list gives the empty byte string and a single
\* segment comes back unchanged.
C5_JoinConcatenates ==
    (jres # NoRes /\ ~SomeColonSeg(paths)) =>
        /\ jres.tag = "Ok"
        /\ as_bytes(jres.val) = Intercalate(paths)
        /\ Len(as_bytes(jres.val)) = TotalBytes(paths) + (IF paths = <<>> THEN 0 ELSE Len(paths) - 1)
        /\ (paths = <<>> => jres.val = from_vec(<<>>))
        /\ (Len(paths) = 1 => jres.val = paths[1])

C5_Witness ==
    /\ jres.tag = "Ok"
    /\ Len(paths) = 3
    /\ \A i \in 1..3 : paths[i].inner # <<>>

\* C6: for segments a, b, c with neither ':' nor the terminator byte,
\* join_paths([a,b,c]) is Ok, split_paths of it yields exactly [a,b,c], and
\* joining those again gives the same bytes.
C6_JoinSplitJoinRoundTrip ==
    (/\ Len(paths) = 3
     /\ \A i \in 1..3 : ~HasColon(paths[i]) /\ ~HasNul(paths[i])
     /\ jres # NoRes) =>
        /\ jres.tag = "Ok"
        /\ (rt_split # NoRes => rt_split.items = paths)
        /\ (rt_join # NoRes => rt_join.tag = "Ok" /\ rt_join.val = jres.val)

C6_Witness ==
    /\ Len(paths) = 3
    /\ \A i \in 1..3 : ~HasColon(paths[i]) /\ ~HasNul(paths[i])
    /\ paths[2] = from_vec(<<>>)
    /\ paths[1] # paths[3]
    /\ rt_join.tag = "Ok"

\* C7: split_paths yields, in order, the k+1 byte runs between the k
\* separators of its input, empty runs included (leading, trailing and
\* consecutive separators; "a::b" gives ["a", "", "b"]; the empty input gives
\* one empty segment).
C7_SplitYieldsEveryRun ==
    (sres # NoRes) =>
        /\ Len(sres.items) = NumColons(as_bytes(unparsed)) + 1
        /\ \A i \in 1..Len(sres.items) : ~HasColon(sres.items[i])
        /\ Intercalate(sres.items) = as_bytes(unparsed)
        /\ (unparsed = from_vec(<<97, Colon, Colon, 98>>) =>
               sres.items = <<from_vec(<<97>>), from_vec(<<>>), from_vec(<<98>>)>>)
        /\ (unparsed = from_vec(<<>>) => sres.items = <<from_vec(<<>>)>>)

C7_Witness ==
    /\ sres # NoRes
    /\ unparsed = from_vec(<<97, Colon, Colon, 98>>)
    /\ Len(sres.items) = 3

\* C17: for every byte string s, leading, trailing and consecutive ':' and
\* the empty string included, no segment split_paths(s) yields contains ':',
\* and join_paths over those segments is Ok with exactly the bytes of s.
C17_SplitThenJoinIsIdentity ==
    /\ (sres # NoRes => \A i \in 1..Len(sres.items) : ~HasColon(sres.items[i]))
    /\ (sj_join # NoRes =>
            /\ sj_join.tag = "Ok"
            /\ sj_join.val = unparsed
            /\ sj_join.consumed = Len(sres.items))

C17_Witness ==
    /\ sj_join.tag = "Ok"
    /\ as_bytes(unparsed) = <<Colon, 97, Colon, Colon>>
    /\ Len(sres.items) = 4

(* ------------------------------------------------------------------ *)
(* WorkingDirectory: the kernel side                                   *)
(* ------------------------------------------------------------------ *)

\* a directory path of n bytes: '/' followed by 'a's
LongDir(n) == [i \in 1..n |-> IF i = 1 THEN 47 ELSE 97]

\* path lengths around the capacities 512 and 1024: the longest that fits the
\* first buffer with its terminator, the first that does not, and one that
\* needs two retries
LongDirs == {LongDir(511), LongDir(512), LongDir(1500)}

\* directories that exist, and the paths callers pass to chdir
ShortDirs == {<<47>>, <<47, 97>>}

ExistingDirs == ShortDirs \cup LongDirs

ChdirArgs == {from_vec(b) : b \in ShortDirs \cup {<<47, 98>>, <<47, Nul, 97>>, <<47, 97, Nul>>}}

\* errors other than ERANGE the kernel getcwd can answer (ENOENT, EACCES)
OtherErrnos == {2, 13}

\* what the memory behind the terminator may hold: it was never initialised
Junk == {<<>>, <<Nul>>, <<97, Nul, 98>>}

\* libc::getcwd(ptr, cap): the raw results the kernel may give.  Success is
\* the number of bytes written, terminator included.
sys_getcwd_returns(cwd, n_erange) ==
    {Len(cwd) + 1} \cup {0 - e : e \in OtherErrnos}
        \cup (IF n_erange < MaxRetries THEN {0 - ERANGE} ELSE {})

\* libc::getcwd(ptr, cap) of a kernel that answers ERANGE exactly while the
\* capacity is smaller than the path plus its terminator, and fails for a
\* standing reason (directory unlinked, search permission lost) otherwise
sys_getcwd_sized(cwd, c, fault) ==
    IF fault # 0 THEN {0 - fault}
    ELSE IF c < Len(cwd) + 1 THEN {0 - ERANGE}
    ELSE {Len(cwd) + 1}

\* the buffer after a successful kernel getcwd: path, terminator, then
\* whatever the allocation held
sys_getcwd_writes(cwd, junk) == cwd \o <<Nul>> \o junk

\* libc::chdir(p): 0 and the directory changes, or -ENOENT
sys_chdir(p) == IF p \in ExistingDirs THEN 0 ELSE 0 - 2

(* ------------------------------------------------------------------ *)
(* WorkingDirectory: getcwd and chdir                                  *)
(* ------------------------------------------------------------------ *)

\* CStr::from_ptr(buf).to_bytes().len(): bytes before the first terminator
CStr_len(buf) ==
    (CHOOSE i \in 1..Len(buf) : buf[i] = Nul /\ \A j \in 1..(i - 1) : buf[j] # Nul) - 1

\* variant: the terminator is counted into the length
getcwd_ok_with_nul(buf) ==
    [tag |-> "Ok", val |-> from_vec(SubSeq(buf, 1, CStr_len(buf) + 1))]

\* variant: the length is one short, the last byte of the path is lost
getcwd_ok_short(buf) ==
    [tag |-> "Ok", val |-> from_vec(SubSeq(buf, 1, CStr_len(buf) - 1))]

\* the Ok arm: set_len(len), shrink_to_fit, PathBuf::from(OsString::from_vec(buf))
getcwd_ok(buf) ==
    [tag |-> "Ok", val |-> from_vec(SubSeq(buf, 1, CStr_len(buf)))]

\* variant: every kernel error triggers a retry
is_erange_any(e) == e.tag = "Err"

\* the guard of the second arm: Err(ref e) if e.raw_os_error() == Some(ERANGE)
is_erange(e) == e.tag = "Err" /\ e.kind = "Os" /\ e.code = ERANGE

\* variant: reserve(0), the capacity stays as it is
reserve_one_same(c) == c

\* variant: growth stops at a fixed largest buffer
reserve_one_capped(c) == IF c < 1024 THEN 2 * c ELSE c

\* buf.set_len(cap); buf.reserve(1): Vec's amortised growth doubles
reserve_one(c) == IF 2 * c > c + 1 THEN 2 * c ELSE c + 1

\* no getcwd() -> chdir -> getcwd() sequence under way
NoRt == [stage |-> 0, p |-> NoRes]

\* getcwd(): let mut buf = Vec::with_capacity(512); enter the loop
getcwd_call ==
    /\ cw_pc \in {"idle", "done"}
    /\ cw_pc' = "loop"
    /\ cap' = InitCap
    /\ kbuf' = <<>>
    /\ hist' = <<>>
    /\ caps' = <<>>
    /\ cw_res' = NoRes
    /\ rt' = IF rt.stage = 2 THEN rt ELSE NoRt
    /\ UNCHANGED <<kcwd, cd_arg, cd_res, cd_kcall, cd_cwd0, kfault>>
    /\ UNCHANGED <<pathVars, envVars>>

\* where a returning getcwd() leaves the get -> chdir -> get sequence
rt_after_getcwd(res) ==
    IF rt.stage = 2 THEN [stage |-> 3, p |-> rt.p]
    ELSE IF res.tag = "Ok" THEN [stage |-> 1, p |-> res.val]
    ELSE NoRt

\* one iteration of the loop, the kernel answering one of rets: the kernel
\* call and the match on its result
getcwd_step(rets) ==
    /\ cw_pc = "loop"
    /\ \E r \in rets, junk \in Junk :
        LET c == cvt(r)
            written == sys_getcwd_writes(kcwd, junk)
        IN  /\ hist' = Append(hist, r)
            /\ caps' = Append(caps, cap)
            /\ IF c.tag = "Ok"
               THEN /\ kbuf' = written
                    /\ cw_res' = getcwd_ok(written)
                    /\ cw_pc' = "done"
                    /\ cap' = cap
                    /\ rt' = rt_after_getcwd(getcwd_ok(written))
               ELSE IF is_erange(c)
               THEN /\ cap' = reserve_one(cap)
                    /\ UNCHANGED <<kbuf, cw_res, cw_pc, rt>>
               ELSE /\ cw_res' = c
                    /\ cw_pc' = "done"
                    /\ rt' = rt_after_getcwd(c)
                    /\ UNCHANGED <<kbuf, cap>>
    /\ UNCHANGED <<kcwd, cd_arg, cd_res, cd_kcall, cd_cwd0, kfault>>
    /\ UNCHANGED <<pathVars, envVars>>

\* the loop against a kernel whose ERANGE answers are simulated
getcwd_iter == getcwd_step(sys_getcwd_returns(kcwd, Len(hist)))

\* the loop against the kernel that answers by the size of the buffer
getcwd_iter_sized == getcwd_step(sys_getcwd_sized(kcwd, cap, kfault))

\* another process unlinks the directory, revokes or restores access
kernel_fault ==
    /\ \E e \in OtherErrnos \cup {0} : e # kfault /\ kfault' = e
    /\ rt' = NoRt
    /\ UNCHANGED <<kcwd, cw_pc, cap, kbuf, hist, cw_res, cd_arg, cd_res, cd_kcall, cd_cwd0,
                   caps>>
    /\ UNCHANGED <<pathVars, envVars>>

\* chdir(p)
chdir(p) ==
    /\ cw_pc # "loop"
    /\ cd_arg' = p
    /\ cd_cwd0' = kcwd
    /\ LET c == CString_new(as_bytes(p))
       IN  IF c.tag = "Err"
           THEN /\ cd_res' = c
                /\ cd_kcall' = FALSE
                /\ kcwd' = kcwd
           ELSE LET r == sys_chdir(CString_as_bytes(c.val))
                    res == cvt(r)
                IN  /\ cd_kcall' = TRUE
                    /\ kcwd' = IF r = 0 THEN CString_as_bytes(c.val) ELSE kcwd
                    /\ cd_res' = IF res.tag = "Ok" THEN [tag |-> "Ok"] ELSE res
    /\ rt' = IF rt.stage = 1 /\ p = rt.p THEN [stage |-> 2, p |-> p] ELSE NoRt
    /\ UNCHANGED <<cw_pc, cap, kbuf, hist, cw_res, caps, kfault>>
    /\ UNCHANGED <<pathVars, envVars>>

CwdInit ==
    /\ kcwd \in ShortDirs
    /\ cw_pc = "idle"
    /\ cap = 0
    /\ kbuf = <<>>
    /\ hist = <<>>
    /\ cw_res = NoRes
    /\ cd_arg = NoRes
    /\ cd_res = NoRes
    /\ cd_kcall = FALSE
    /\ cd_cwd0 = <<>>
    /\ caps = <<>>
    /\ kfault = 0
    /\ rt = NoRt

CwdIdle ==
    /\ kcwd = <<47>>
    /\ cw_pc = "idle"
    /\ cap = 0
    /\ kbuf = <<>>
    /\ hist = <<>>
    /\ cw_res = NoRes
    /\ cd_arg = NoRes
    /\ cd_res = NoRes
    /\ cd_kcall = FALSE
    /\ cd_cwd0 = <<>>
    /\ caps = <<>>
    /\ kfault = 0
    /\ rt = NoRt

CwdNext ==
    \/ getcwd_call
    \/ getcwd_iter
    \/ \E p \in ChdirArgs : chdir(p)

\* the same callers against the kernel that answers by the size of the
\* buffer; the directory may be a long one, and chdir may be handed any
\* existing directory
CwdInitK ==
    /\ kcwd \in ExistingDirs
    /\ cw_pc = "idle"
    /\ cap = 0
    /\ kbuf = <<>>
    /\ hist = <<>>
    /\ cw_res = NoRes
    /\ cd_arg = NoRes
    /\ cd_res = NoRes
    /\ cd_kcall = FALSE
    /\ cd_cwd0 = <<>>
    /\ caps = <<>>
    /\ kfault = 0
    /\ rt = NoRt

ChdirArgsK == ChdirArgs \cup {from_vec(b) : b \in LongDirs}

CwdNextK ==
    \/ getcwd_call
    \/ getcwd_iter_sized
    \/ \E p \in ChdirArgsK : chdir(p)
    \/ kernel_fault

(* ------------------------------------------------------------------ *)
(* WorkingDirectory: properties                                        *)
(* ------------------------------------------------------------------ *)

AllErange(h) == \A i \in 1..Len(h) : h[i] = 0 - ERANGE

\* C1: when the kernel answers "insufficient buffer" N times and then
\* succeeds, getcwd() makes exactly N+1 kernel calls (it is still in its loop
\* after every ERANGE and makes no call after the success) and returns Ok with
\* exactly the bytes the kernel wrote before the first terminator byte.
C1_RetriesThenTruncatedResult ==
    /\ (cw_pc = "loop" => AllErange(hist))
    /\ (cw_pc = "done" => Len(hist) >= 1 /\ AllErange(SubSeq(hist, 1, Len(hist) - 1)))
    /\ (cw_pc = "done" /\ hist[Len(hist)] >= 0) =>
          /\ cw_res.tag = "Ok"
          /\ Nul \notin Range(as_bytes(cw_res.val))
          /\ Len(kbuf) > Len(as_bytes(cw_res.val))
          /\ kbuf[Len(as_bytes(cw_res.val)) + 1] = Nul
          /\ \A i \in 1..Len(as_bytes(cw_res.val)) : as_bytes(cw_res.val)[i] = kbuf[i]

C1_Witness ==
    /\ cw_pc = "done"
    /\ cw_res.tag = "Ok"
    /\ Len(hist) = 6
    /\ Len(kbuf) > Len(as_bytes(cw_res.val)) + 1

\* C10: a kernel failure other than ERANGE is returned at once as an OS error
\* with that same raw code and no kernel call follows it; ERANGE itself is
\* never the error getcwd() returns.
C10_OtherErrorsPropagate ==
    /\ \A i \in 1..Len(hist) :
          (hist[i] < 0 /\ hist[i] # 0 - ERANGE) =>
              /\ i = Len(hist)
              /\ cw_pc = "done"
              /\ cw_res = [tag |-> "Err", kind |-> "Os", code |-> 0 - hist[i]]
    /\ (cw_res.tag = "Err" => cw_res.code # ERANGE)

C10_Witness ==
    /\ cw_pc = "done"
    /\ cw_res.tag = "Err"
    /\ cw_res.code = 13
    /\ Len(hist) = 3

\* C12: within one getcwd() the first capacity handed to the kernel is at
\* least 512 and every later one is strictly greater than the one before it;
\* every kernel call but the last answered ERANGE, the capacity waiting for
\* the next call is already greater, and the call never returns on ERANGE.
C12_CapacityGrowsOnEveryRetry ==
    /\ Len(caps) = Len(hist)
    /\ (caps # <<>> => caps[1] >= InitCap)
    /\ \A i \in 1..(Len(caps) - 1) :
          /\ caps[i + 1] > caps[i]
          /\ hist[i] = 0 - ERANGE
    /\ (cw_pc = "loop" =>
          IF caps = <<>> THEN cap >= InitCap
          ELSE /\ hist[Len(hist)] = 0 - ERANGE
               /\ cap > caps[Len(caps)])
    /\ (cw_pc = "done" => hist # <<>> /\ hist[Len(hist)] # 0 - ERANGE)

C12_Witness ==
    /\ cw_pc = "done"
    /\ caps = <<512, 1024, 2048>>
    /\ hist[1] = 0 - ERANGE
    /\ hist[2] = 0 - ERANGE

\* how many times c must double to reach n
RECURSIVE Doublings(_, _)
Doublings(c, n) == IF c >= n THEN 0 ELSE 1 + Doublings(2 * c, n)

\* C16: against a kernel that answers ERANGE only while the capacity is below
\* the directory's length plus one, with the directory unchanged during the
\* call, a getcwd() in its loop has made no more kernel calls than doublings
\* of 512 reach that length, and it always comes to its return.
C16_GetcwdTerminates ==
    /\ [](cw_pc = "loop" => Len(hist) <= Doublings(InitCap, Len(kcwd) + 1))
    /\ ((cw_pc = "loop") ~> (cw_pc = "done"))

C16_Witness ==
    /\ cw_pc = "done"
    /\ kcwd = LongDir(1500)
    /\ Len(hist) = 3
    /\ cw_res = [tag |-> "Ok", val |-> from_vec(LongDir(1500))]

\* C11: once getcwd() has returned Ok(p) and chdir(p) is called next, that
\* chdir returns Ok, and the getcwd() called after it returns Ok with exactly
\* the bytes of p (the kernel's state left alone in between).
C11_GetcwdChdirRoundTrip ==
    /\ (rt.stage >= 2 => cd_arg = rt.p /\ cd_res = [tag |-> "Ok"])
    /\ (rt.stage = 3 => cw_res = [tag |-> "Ok", val |-> rt.p])

C11_Witness ==
    /\ rt.stage = 3
    /\ as_bytes(rt.p) = LongDir(512)
    /\ cw_res = [tag |-> "Ok", val |-> rt.p]
    /\ Len(hist) = 2

(* ------------------------------------------------------------------ *)
(* EnvironmentTable: the raw layer                                     *)
(* ------------------------------------------------------------------ *)

Threads == {1, 2}

\* keys the table can hold, in the order the raw layer enumerates them
KeyOrder == <<(<<97>>), (<<98>>)>>

TableKeys == Range(KeyOrder)

\* keys and values callers pass
EnvKeys == {from_vec(b) : b \in TableKeys \cup {<<97, Nul, 98>>}}

EnvVals == {from_vec(b) : b \in {<<120>>, <<120, Nul>>}}

\* a table slot: no entry, or the stored value bytes
Absent == [tag |-> "None"]

Present(v) == [tag |-> "Some", val |-> v]

Tables == [TableKeys -> {Present(as_bytes(v)) : v \in EnvVals} \cup {Absent}]

\* libc::getenv(key): the stored value, if any
libc_getenv(table, k) ==
    IF k \in TableKeys /\ table[k] # Absent
    THEN [tag |-> "Some", val |-> table[k].val]
    ELSE [tag |-> "None"]

\* libc::setenv(key, value): the possible outcomes, raw result and new table.
\* A key the table cannot hold is refused (-EINVAL); any call may fail for
\* lack of memory (-ENOMEM); otherwise the pair is stored.
libc_setenv(table, k, v) ==
    IF k \notin TableKeys
    THEN {[ret |-> 0 - 22, table |-> table]}
    ELSE {[ret |-> 0, table |-> [table EXCEPT ![k] = Present(v)]],
          [ret |-> 0 - 12, table |-> table]}

\* libc::unsetenv(key): likewise; removing an absent key succeeds
libc_unsetenv(table, k) ==
    IF k \notin TableKeys
    THEN {[ret |-> 0 - 22, table |-> table]}
    ELSE {[ret |-> 0, table |-> [table EXCEPT ![k] = Absent]]}

\* libc::env().values() continued after position cursor: the position of the
\* next entry of the live table (0 when the iterator is exhausted)
libc_env_next(table, cursor) ==
    IF \E i \in (cursor + 1)..Len(KeyOrder) : table[KeyOrder[i]] # Absent
    THEN CHOOSE i \in (cursor + 1)..Len(KeyOrder) :
            /\ table[KeyOrder[i]] # Absent
            /\ \A j \in (cursor + 1)..(i - 1) : table[KeyOrder[j]] = Absent
    ELSE 0

(* ------------------------------------------------------------------ *)
(* EnvironmentTable: env / getenv / setenv / unsetenv                  *)
(* ------------------------------------------------------------------ *)

NoAcc == [items |-> <<>>, cursor |-> 0]

NoMut == [op |-> "none", k |-> <<>>, v |-> <<>>]

\* env()'s os_string: an owned copy of the slice
os_string(slice) == from_vec(slice)

\* variant: the pair is built from the key slice twice
env_pair_key_twice(kv) == <<os_string(kv.key), os_string(kv.key)>>

\* the closure |kv| (os_string(&kv.key), os_string(&kv.value))
env_pair(kv) == <<os_string(kv.key), os_string(kv.value)>>

\* variant: the terminator stays on the key handed to the raw lookup
getenv_key_with_nul(c) == c

\* k.as_bytes() on the CString of getenv
getenv_key(c) == CString_as_bytes(c)

\* variant: the value of the yielded pair is read from the live table
IntoIter_next_live(iter) ==
    [item |-> <<Head(iter)[1],
                IF environ[as_bytes(Head(iter)[1])] = Absent
                THEN from_vec(<<>>)
                ELSE from_vec(environ[as_bytes(Head(iter)[1])].val)>>,
     rest |-> Tail(iter)]

\* vec::IntoIter::next on a non-empty iterator
IntoIter_next(iter) == [item |-> Head(iter), rest |-> Tail(iter)]

\* what every call does to the per-call bookkeeping
Begin(t, o, k, v) ==
    /\ pc[t] \in {"idle", "done"}
    /\ op' = [op EXCEPT ![t] = o]
    /\ ek' = [ek EXCEPT ![t] = k]
    /\ ev' = [ev EXCEPT ![t] = v]
    /\ kcall' = [kcall EXCEPT ![t] = FALSE]
    /\ tch' = [tch EXCEPT ![t] = FALSE]
    /\ acc' = [acc EXCEPT ![t] = NoAcc]
    /\ nlock' = [nlock EXCEPT ![t] = 0]
    /\ seen' = [seen EXCEPT ![t] = {}]
    /\ UNCHANGED held

\* env(): up to ENV_LOCK.lock()
env_call(t) ==
    /\ Begin(t, "env", NoRes, NoRes)
    /\ pc' = [pc EXCEPT ![t] = "lock"]
    /\ eres' = [eres EXCEPT ![t] = NoRes]
    /\ UNCHANGED <<environ, snap, taken, yielded, dirty, lastMut>>
    /\ UNCHANGED <<pathVars, cwdVars>>

\* getenv(k): CString::new(k.as_bytes())? returns early on a nul byte
getenv_call(t, k) ==
    /\ Begin(t, "getenv", k, NoRes)
    /\ LET c == CString_new(as_bytes(k))
       IN  IF c.tag = "Err"
           THEN /\ pc' = [pc EXCEPT ![t] = "done"]
                /\ eres' = [eres EXCEPT ![t] = c]
           ELSE /\ pc' = [pc EXCEPT ![t] = "lock"]
                /\ eres' = [eres EXCEPT ![t] = NoRes]
    /\ UNCHANGED <<environ, snap, taken, yielded, dirty, lastMut>>
    /\ UNCHANGED <<pathVars, cwdVars>>

\* setenv(k, v): straight to ENV_LOCK.lock()
setenv_call(t, k, v) ==
    /\ Begin(t, "setenv", k, v)
    /\ pc' = [pc EXCEPT ![t] = "lock"]
    /\ eres' = [eres EXCEPT ![t] = NoRes]
    /\ UNCHANGED <<environ, snap, taken, yielded, dirty, lastMut>>
    /\ UNCHANGED <<pathVars, cwdVars>>

\* unsetenv(k): straight to ENV_LOCK.lock()
unsetenv_call(t, k) ==
    /\ Begin(t, "unsetenv", k, NoRes)
    /\ pc' = [pc EXCEPT ![t] = "lock"]
    /\ eres' = [eres EXCEPT ![t] = NoRes]
    /\ UNCHANGED <<environ, snap, taken, yielded, dirty, lastMut>>
    /\ UNCHANGED <<pathVars, cwdVars>>

\* variant: a real mutex, lock() waits while another thread holds it
lock_blocking(t) ==
    /\ pc[t] = "lock"
    /\ \A u \in Threads \ {t} : held[u] = 0
    /\ pc' = [pc EXCEPT ![t] = "raw"]
    /\ held' = [held EXCEPT ![t] = @ + 1]
    /\ nlock' = [nlock EXCEPT ![t] = @ + 1]
    /\ seen' = [seen EXCEPT ![t] = IF op[t] = "env" THEN {environ} ELSE {}]
    /\ UNCHANGED <<environ, op, ek, ev, eres, acc, snap, kcall, tch, taken, yielded,
                   dirty, lastMut>>
    /\ UNCHANGED <<pathVars, cwdVars>>

\* ENV_LOCK.lock(): MutexExt::lock has an empty body
lock(t) ==
    /\ pc[t] = "lock"
    /\ pc' = [pc EXCEPT ![t] = "raw"]
    /\ held' = [held EXCEPT ![t] = @ + 1]
    /\ nlock' = [nlock EXCEPT ![t] = @ + 1]
    /\ seen' = [seen EXCEPT ![t] = IF op[t] = "env" THEN {environ} ELSE {}]
    /\ UNCHANGED <<environ, op, ek, ev, eres, acc, snap, kcall, tch, taken, yielded,
                   dirty, lastMut>>
    /\ UNCHANGED <<pathVars, cwdVars>>

\* ENV_LOCK.unlock(): MutexExt::unlock has an empty body
unlock(t) ==
    /\ pc[t] = "unlock"
    /\ pc' = [pc EXCEPT ![t] = "ret"]
    /\ held' = [held EXCEPT ![t] = @ - 1]
    /\ UNCHANGED <<nlock, seen>>
    /\ UNCHANGED <<environ, op, ek, ev, eres, acc, snap, kcall, tch, taken, yielded,
                   dirty, lastMut>>
    /\ UNCHANGED <<pathVars, cwdVars>>

\* env(): one step of libc::env().values().map(..).collect(): copy the next
\* live entry, or finish the vector and build the Env
env_raw(t) ==
    /\ pc[t] = "raw"
    /\ UNCHANGED <<held, nlock, seen>>
    /\ op[t] = "env"
    /\ kcall' = [kcall EXCEPT ![t] = TRUE]
    /\ LET i == libc_env_next(environ, acc[t].cursor)
       IN  IF i # 0
           THEN /\ acc' = [acc EXCEPT ![t] =
                       [items |-> Append(acc[t].items,
                                         env_pair([key |-> KeyOrder[i],
                                                   value |-> environ[KeyOrder[i]].val])),
                        cursor |-> i]]
                /\ dirty' = [dirty EXCEPT ![t] = IF acc[t].cursor = 0 THEN FALSE ELSE @]
                /\ UNCHANGED <<pc, eres>>
           ELSE /\ eres' = [eres EXCEPT ![t] = [tag |-> "Env", iter |-> acc[t].items]]
                /\ pc' = [pc EXCEPT ![t] = "unlock"]
                /\ dirty' = [dirty EXCEPT ![t] = IF acc[t].cursor = 0 THEN FALSE ELSE @]
                /\ UNCHANGED acc
    /\ UNCHANGED <<environ, op, ek, ev, snap, tch, taken, yielded, lastMut>>
    /\ UNCHANGED <<pathVars, cwdVars>>

\* getenv: let s = libc::getenv(k.as_bytes()).map(|v| OsString::from_vec(v.to_owned()))
getenv_raw(t) ==
    /\ pc[t] = "raw"
    /\ UNCHANGED <<held, nlock, seen>>
    /\ op[t] = "getenv"
    /\ kcall' = [kcall EXCEPT ![t] = TRUE]
    /\ LET c == CString_new(as_bytes(ek[t])).val
           s == libc_getenv(environ, getenv_key(c))
       IN  eres' = [eres EXCEPT ![t] =
                       [tag |-> "Ok",
                        val |-> IF s.tag = "Some"
                                THEN [tag |-> "Some", val |-> from_vec(s.val)]
                                ELSE [tag |-> "None"]]]
    /\ pc' = [pc EXCEPT ![t] = "unlock"]
    /\ UNCHANGED <<environ, op, ek, ev, acc, snap, tch, taken, yielded, dirty, lastMut>>
    /\ UNCHANGED <<pathVars, cwdVars>>

\* the tables every env() between its lock() and unlock() has lived through,
\* once the table has become tb
seen_after(tb) ==
    [u \in Threads |-> IF op[u] = "env" /\ held[u] > 0 THEN seen[u] \cup {tb} ELSE seen[u]]

\* variant: an OS error returns at once, as `?` would, past the unlock()
after_raw_early(res) == IF res.tag = "Err" THEN "ret" ELSE "unlock"

\* setenv / unsetenv keep the result in a local and go on to ENV_LOCK.unlock()
after_raw(res) == "unlock"

\* setenv: let result = cvt(libc::setenv(k.as_bytes(), v.as_bytes())).map(|_| ())
setenv_raw(t) ==
    /\ pc[t] = "raw"
    /\ op[t] = "setenv"
    /\ kcall' = [kcall EXCEPT ![t] = TRUE]
    /\ \E out \in libc_setenv(environ, as_bytes(ek[t]), as_bytes(ev[t])) :
        LET res == cvt(out.ret)
        IN  /\ environ' = out.table
            /\ eres' = [eres EXCEPT ![t] = IF res.tag = "Ok" THEN [tag |-> "Ok"] ELSE res]
            /\ pc' = [pc EXCEPT ![t] = after_raw(res)]
            /\ lastMut' = IF out.ret = 0
                          THEN [op |-> "setenv", k |-> as_bytes(ek[t]), v |-> as_bytes(ev[t])]
                          ELSE lastMut
    /\ dirty' = [u \in Threads |-> TRUE]
    /\ tch' = [u \in Threads |-> tch[u] \/ environ' # environ]
    /\ seen' = seen_after(environ')
    /\ UNCHANGED <<held, nlock>>
    /\ UNCHANGED <<op, ek, ev, acc, snap, taken, yielded>>
    /\ UNCHANGED <<pathVars, cwdVars>>

\* unsetenv: let ret = cvt(libc::unsetenv(k.as_bytes())).map(|_| ())
unsetenv_raw(t) ==
    /\ pc[t] = "raw"
    /\ op[t] = "unsetenv"
    /\ kcall' = [kcall EXCEPT ![t] = TRUE]
    /\ \E out \in libc_unsetenv(environ, as_bytes(ek[t])) :
        LET res == cvt(out.ret)
        IN  /\ environ' = out.table
            /\ eres' = [eres EXCEPT ![t] = IF res.tag = "Ok" THEN [tag |-> "Ok"] ELSE res]
            /\ pc' = [pc EXCEPT ![t] = after_raw(res)]
            /\ lastMut' = IF out.ret = 0
                          THEN [op |-> "unsetenv", k |-> as_bytes(ek[t]), v |-> <<>>]
                          ELSE lastMut
    /\ dirty' = [u \in Threads |-> TRUE]
    /\ tch' = [u \in Threads |-> tch[u] \/ environ' # environ]
    /\ seen' = seen_after(environ')
    /\ UNCHANGED <<held, nlock>>
    /\ UNCHANGED <<op, ek, ev, acc, snap, taken, yielded>>
    /\ UNCHANGED <<pathVars, cwdVars>>

\* the function returns its local result; the Env of env() becomes the caller's
ret(t) ==
    /\ pc[t] = "ret"
    /\ UNCHANGED <<held, nlock, seen>>
    /\ pc' = [pc EXCEPT ![t] = "done"]
    /\ IF op[t] = "env"
       THEN /\ snap' = [snap EXCEPT ![t] = eres[t]]
            /\ taken' = [taken EXCEPT ![t] = eres[t].iter]
            /\ yielded' = [yielded EXCEPT ![t] = <<>>]
       ELSE UNCHANGED <<snap, taken, yielded>>
    /\ UNCHANGED <<environ, op, ek, ev, eres, acc, kcall, tch, dirty, lastMut>>
    /\ UNCHANGED <<pathVars, cwdVars>>

\* Env::next on the Env the thread owns
Env_next(t) ==
    /\ pc[t] \in {"idle", "done"}
    /\ UNCHANGED <<held, nlock, seen>>
    /\ snap[t] # NoRes
    /\ snap[t].iter # <<>>
    /\ LET n == IntoIter_next(snap[t].iter)
       IN  /\ snap' = [snap EXCEPT ![t] = [tag |-> "Env", iter |-> n.rest]]
           /\ yielded' = [yielded EXCEPT ![t] = Append(@, n.item)]
    /\ UNCHANGED <<environ, pc, op, ek, ev, eres, acc, kcall, tch, taken, dirty, lastMut>>
    /\ UNCHANGED <<pathVars, cwdVars>>

EnvInit ==
    /\ environ \in Tables
    /\ pc = [t \in Threads |-> "idle"]
    /\ op = [t \in Threads |-> "none"]
    /\ ek = [t \in Threads |-> NoRes]
    /\ ev = [t \in Threads |-> NoRes]
    /\ eres = [t \in Threads |-> NoRes]
    /\ acc = [t \in Threads |-> NoAcc]
    /\ snap = [t \in Threads |-> NoRes]
    /\ kcall = [t \in Threads |-> FALSE]
    /\ tch = [t \in Threads |-> FALSE]
    /\ taken = [t \in Threads |-> <<>>]
    /\ yielded = [t \in Threads |-> <<>>]
    /\ dirty = [t \in Threads |-> TRUE]
    /\ lastMut = NoMut
    /\ held = [t \in Threads |-> 0]
    /\ nlock = [t \in Threads |-> 0]
    /\ seen = [t \in Threads |-> {}]

EnvIdle ==
    /\ environ = [k \in TableKeys |-> Absent]
    /\ pc = [t \in Threads |-> "idle"]
    /\ op = [t \in Threads |-> "none"]
    /\ ek = [t \in Threads |-> NoRes]
    /\ ev = [t \in Threads |-> NoRes]
    /\ eres = [t \in Threads |-> NoRes]
    /\ acc = [t \in Threads |-> NoAcc]
    /\ snap = [t \in Threads |-> NoRes]
    /\ kcall = [t \in Threads |-> FALSE]
    /\ tch = [t \in Threads |-> FALSE]
    /\ taken = [t \in Threads |-> <<>>]
    /\ yielded = [t \in Threads |-> <<>>]
    /\ dirty = [t \in Threads |-> TRUE]
    /\ lastMut = NoMut
    /\ held = [t \in Threads |-> 0]
    /\ nlock = [t \in Threads |-> 0]
    /\ seen = [t \in Threads |-> {}]

\* the steps of one thread, with the arguments its calls may take
EnvStep(t, keys, vals) ==
    \/ env_call(t)
    \/ \E k \in keys : getenv_call(t, k)
    \/ \E k \in keys, v \in vals : setenv_call(t, k, v)
    \/ \E k \in keys : unsetenv_call(t, k)
    \/ lock(t)
    \/ env_raw(t)
    \/ getenv_raw(t)
    \/ setenv_raw(t)
    \/ unsetenv_raw(t)
    \/ unlock(t)
    \/ ret(t)
    \/ Env_next(t)

\* one caller thread
EnvNext == EnvStep(1, EnvKeys, EnvVals)

EnvSpecInit == PathIdle /\ CwdIdle /\ EnvInit

SpecEnv == EnvSpecInit /\ [][EnvNext]_vars

\* two caller threads; the second one only sets and unsets one key
MTKeys == {from_vec(<<97>>)}

MTVals == {from_vec(<<120>>)}

EnvNextMT == \E t \in Threads : EnvStep(t, MTKeys, MTVals)

SpecEnvMT == EnvSpecInit /\ [][EnvNextMT]_vars

\* thread 1 takes snapshots while thread 2 sets and unsets either key
RaceKeys == {from_vec(<<97>>), from_vec(<<98>>)}

EnvNextRace ==
    \/ env_call(1)
    \/ \E k \in RaceKeys, v \in MTVals : setenv_call(2, k, v)
    \/ \E k \in RaceKeys : unsetenv_call(2, k)
    \/ \E t \in Threads : lock(t)
    \/ env_raw(1)
    \/ setenv_raw(2)
    \/ unsetenv_raw(2)
    \/ \E t \in Threads : unlock(t)
    \/ \E t \in Threads : ret(t)

SpecEnvRace == EnvSpecInit /\ [][EnvNextRace]_vars

(* ------------------------------------------------------------------ *)
(* EnvironmentTable: properties                                        *)
(* ------------------------------------------------------------------ *)

EncodingError == [tag |-> "Err", kind |-> "Encoding", code |-> 0]

OkSome(os) == [tag |-> "Ok", val |-> [tag |-> "Some", val |-> os]]

OkNone == [tag |-> "Ok", val |-> [tag |-> "None"]]

KeyedOps == {"getenv", "setenv", "unsetenv"}

\* C2: a key given to getenv, setenv or unsetenv, or a path given to chdir,
\* that contains the terminator byte makes the operation return an Encoding
\* error without any call into the raw layer, the table and the working
\* directory staying as they were.
C2_NulKeyOrPathIsEncodingError ==
    /\ \A t \in Threads :
          (op[t] \in KeyedOps /\ HasNul(ek[t])) =>
              /\ ~kcall[t]
              /\ (pc[t] = "done" => eres[t] = EncodingError /\ ~tch[t])
    /\ (cd_arg # NoRes /\ HasNul(cd_arg)) =>
          /\ cd_res = EncodingError
          /\ ~cd_kcall
          /\ kcwd = cd_cwd0

\* the part of C2 the code does implement: getenv and chdir
GetenvChdirRejectNul ==
    /\ \A t \in Threads :
          (op[t] = "getenv" /\ HasNul(ek[t])) =>
              pc[t] = "done" /\ eres[t] = EncodingError /\ ~kcall[t] /\ ~tch[t]
    /\ (cd_arg # NoRes /\ HasNul(cd_arg)) =>
          /\ cd_res = EncodingError
          /\ ~cd_kcall
          /\ kcwd = cd_cwd0

\* C3: with no other change of the table in between, getenv(k) after a
\* successful setenv(k, v) returns Ok(Some(v)), and after a successful
\* unsetenv(k) returns Ok(None), for every key k without a terminator byte.
C3_GetAfterSetOrUnset ==
    \A t \in Threads :
        (/\ pc[t] = "done"
         /\ op[t] = "getenv"
         /\ ~HasNul(ek[t])
         /\ lastMut.op # "none"
         /\ lastMut.k = as_bytes(ek[t])) =>
            /\ (lastMut.op = "setenv" => eres[t] = OkSome(from_vec(lastMut.v)))
            /\ (lastMut.op = "unsetenv" => eres[t] = OkNone)

C3_Witness ==
    /\ pc[1] = "done"
    /\ op[1] = "getenv"
    /\ lastMut = [op |-> "setenv", k |-> <<97>>, v |-> <<120, Nul>>]
    /\ ek[1] = from_vec(<<97>>)
    /\ eres[1] = OkSome(from_vec(<<120, Nul>>))

\* C8: with no raw setenv/unsetenv since env() collected its snapshot, a
\* getenv(k) returns Ok(Some(v)) for every pair (k, v) of the snapshot, and
\* whatever Ok(Some(v)) it returns is a pair (k, v) of the snapshot.
C8_SnapshotAgreesWithGetenv ==
    \A t \in Threads :
        (/\ pc[t] = "done"
         /\ op[t] = "getenv"
         /\ snap[t] # NoRes
         /\ ~dirty[t]) =>
            /\ \A i \in 1..Len(taken[t]) :
                  taken[t][i][1] = ek[t] => eres[t] = OkSome(taken[t][i][2])
            /\ \A v \in EnvVals :
                  eres[t] = OkSome(v) => \E i \in 1..Len(taken[t]) : taken[t][i] = <<ek[t], v>>

C8_Witness ==
    /\ pc[1] = "done"
    /\ op[1] = "getenv"
    /\ snap[1] # NoRes
    /\ ~dirty[1]
    /\ Len(taken[1]) = 2
    /\ taken[1][2][1] = ek[1]
    /\ eres[1] = OkSome(taken[1][2][2])

\* C9: whatever setenv/unsetenv steps any thread takes after env() returned,
\* the pairs the returned Env yields are the pairs env() collected: what has
\* been yielded followed by what is left is the collected sequence.
C9_SnapshotIsPrivate ==
    \A t \in Threads :
        snap[t] # NoRes => yielded[t] \o snap[t].iter = taken[t]

C9_Witness ==
    /\ snap[1] # NoRes
    /\ yielded[1] = <<(<<from_vec(<<97>>), from_vec(<<120>>)>>)>>
    /\ environ[<<97>>] = Absent
    /\ op[2] = "unsetenv"
    /\ pc[2] = "done"

\* C13: every operation's raw table access happens while it holds the lock
\* it took exactly once; no thread ever holds more than one acquisition; an
\* operation that has returned (Ok, OS error or encoding error) or is about to
\* holds none; and one that returned an encoding error took no lock and made
\* no raw access.
C13_LockBracketsRawAccess ==
    \A t \in Threads :
        /\ held[t] \in {0, 1}
        /\ nlock[t] \in {0, 1}
        /\ (pc[t] = "lock" => held[t] = 0 /\ nlock[t] = 0 /\ ~kcall[t])
        /\ (pc[t] = "raw" => held[t] = 1 /\ nlock[t] = 1)
        /\ (pc[t] = "unlock" => held[t] = 1 /\ kcall[t])
        /\ (kcall[t] => nlock[t] = 1)
        /\ (pc[t] \in {"idle", "ret", "done"} => held[t] = 0)
        /\ (pc[t] = "done" /\ eres[t] = EncodingError => nlock[t] = 0 /\ ~kcall[t])
        /\ (pc[t] = "done" /\ eres[t] # EncodingError => nlock[t] = 1 /\ kcall[t])

C13_Witness ==
    /\ pc[1] = "done"
    /\ op[1] = "setenv"
    /\ eres[1].tag = "Err"
    /\ kcall[1]
    /\ nlock[1] = 1
    /\ held[1] = 0

\* the pairs of a table's live entries, as env() would copy them
TablePairs(tb) ==
    {env_pair([key |-> k, value |-> tb[k].val]) : k \in {j \in TableKeys : tb[j].tag = "Some"}}

\* C14: the pairs of every snapshot env() has returned are the content the
\* table had at one instant between that env()'s lock() and its unlock().
C14_SnapshotIsAtomic ==
    \A t \in Threads :
        (pc[t] = "done" /\ op[t] = "env") =>
            \E tb \in seen[t] : Range(taken[t]) = TablePairs(tb)

\* C15: lock() and unlock() can always be taken at once, whatever the other
\* thread holds, and leave the table and every operation's data as they were.
C15_LockNeverBlocks ==
    \A t \in Threads :
        /\ (pc[t] = "lock" =>
                ENABLED (lock(t) /\ UNCHANGED <<environ, op, ek, ev, eres, acc, snap>>))
        /\ (pc[t] = "unlock" =>
                ENABLED (unlock(t) /\ UNCHANGED <<environ, op, ek, ev, eres, acc, snap>>))

\* both threads are between their lock() and unlock(): one inside setenv's
\* raw call, the other inside env's raw access
C15_Witness ==
    /\ held[1] = 1 /\ pc[1] = "raw" /\ op[1] = "env"
    /\ held[2] = 1 /\ pc[2] = "raw" /\ op[2] = "setenv"

Init == PathInit /\ CwdIdle /\ EnvIdle

Next == PathNext

Spec == Init /\ [][Next]_vars

CwdSpecInit == PathIdle /\ CwdInit /\ EnvIdle

SpecCwd == CwdSpecInit /\ [][CwdNext]_vars

CwdSpecInitK == PathIdle /\ CwdInitK /\ EnvIdle

\* the calling thread keeps running: an iteration of the loop that can be
\* taken is taken
SpecCwdK == CwdSpecInitK /\ [][CwdNextK]_vars /\ WF_vars(getcwd_iter_sized)

====
